---- MODULE Spec2Model ----
(***************************************************************************)
(* Model of the Modbus master polling worker of ccs-esp32                  *)
(* (main/main.c, master_operation_func) over a characteristic table.       *)
(*                                                                         *)
(* The descriptor table is an input of the model: Init picks one of the    *)
(* tables of Tables (the table of main.c and two tables that use the other *)
(* register kinds and the CID_HOLD_TEST_REG characteristic of the enum).   *)
(* The Modbus controller library (mbcontroller.h) is not in the repository: *)
(* a read or a write returns ESP_OK, ESP_ERR_NOT_FOUND or a transport      *)
(* error ("FAIL"), chosen nondeterministically; reads return any value of  *)
(* a small set.  Floats are modelled by integers.                          *)
(***************************************************************************)
EXTENDS Integers, Sequences, FiniteSets, TLC

\* ---------------------------------------------------------------- bounds
\* Largest raw value a coil / discrete read returns (values 0..MaxState).
MaxState == 3
\* Requests the server receives.
MaxRequests == 2
\* Length of an ordinary request body.
BodyLen == 40

\* ------------------------------------------------------ program constants
MASTER_MAX_RETRY == 3
CID_HOLD_TEST_REG == 6
\* 0xAAAAAAAA, the first word of the filled test array, as the signed value
\* of the same 32 bits (the model checker's integers are 32-bit signed)
SENTINEL == -1431655766
\* 0xAA, the byte memset writes
FILL_BYTE == 170
\* rest_server.c: #define SCRATCH_BUFSIZE (10240)
SCRATCH_BUFSIZE == 10240

ESP_OK == "OK"
ESP_ERR_NOT_FOUND == "NOT_FOUND"
\* any other esp_err_t a field-bus exchange returns (timeout, bad response)
ESP_FAIL == "FAIL"
ErrCodes == {ESP_OK, ESP_ERR_NOT_FOUND, ESP_FAIL}

Kinds == {"HOLDING", "INPUT", "COIL", "DISCRETE"}
NULL == 0
\* a NULL instance pointer
NULL_PTR == << >>

\* ------------------------------------------------------------ descriptors
\* mb_parameter_descriptor_t: cid, register kind, instance offset (real
\* offset + 1), data type, options opt1/opt2 (= min/max, or opt1 = bitmask).
Desc(c, kind, off, ptype, o1, o2) ==
    [cid |-> c, mb_param_type |-> kind, param_offset |-> off,
     param_type |-> ptype, opt1 |-> o1, opt2 |-> o2]

\* The table of main.c: one input register with limits (-10, 10).
TableMain == << Desc(0, "INPUT", 1, "FLOAT", -10, 10) >>

\* A table with an analog and two digital characteristics.
TableMixed == << Desc(0, "HOLDING", 1, "FLOAT", -10, 10),
                 Desc(1, "COIL", 1, "U8", 1, 0),
                 Desc(2, "DISCRETE", 1, "U8", 3, 0) >>

\* A table laid out as the CID enum up to CID_HOLD_TEST_REG.
TableTest == << Desc(0, "INPUT", 1, "FLOAT", 0, 0),
                Desc(1, "HOLDING", 1, "FLOAT", 0, 0),
                Desc(2, "INPUT", 2, "FLOAT", 0, 0),
                Desc(3, "HOLDING", 2, "FLOAT", 0, 0),
                Desc(4, "INPUT", 3, "FLOAT", 0, 0),
                Desc(5, "HOLDING", 3, "ASCII", 0, 0),
                Desc(6, "HOLDING", 4, "ASCII", 0, 0) >>

\* Tables with a configuration defect: the sentinel offset 0, an unknown kind.
TableBadOffset == << Desc(0, "INPUT", 1, "FLOAT", -10, 10),
                     Desc(1, "HOLDING", 0, "FLOAT", -10, 10) >>
TableBadKind == << Desc(0, "HOLDING", 2, "FLOAT", -10, 10),
                   Desc(1, "UNKNOWN", 2, "FLOAT", -10, 10) >>

Tables == {TableMain, TableMixed, TableTest, TableBadOffset, TableBadKind}

MaxOffset == 4
Locs == Kinds \X (0 .. MaxOffset - 1)
\* the cids of the enum up to CID_HOLD_TEST_REG
Cids == 0 .. CID_HOLD_TEST_REG

VARIABLES
    table,        \* device_parameters
    pc,           \* position of master_operation_func
    retry, cid,   \* loop counters
    err,          \* esp_err_t err
    value,        \* float value
    alarm_state,  \* bool alarm_state
    pd,           \* param_descriptor: NULL or 1-based index into table
    storage,      \* first word of each field of the four parameter blocks
    tail,         \* bytes after the first word of the test array
    dev_test,     \* the test registers held by the slave device
    session_open, \* the Modbus master controller exists
    reported,     \* the outcome logged at the end of the run
    \* history variables
    sweeps, visited, fails, bus_ops, alarm_sets, first_viol, alarm_sweep,
    last_read, echo_writes, sweep_writes, test_read, destroys,
    resolved,     \* the last descriptor given to master_get_param_data and the result
    dev_regs,     \* the registers of the slave behind each cid
    bus_taken,    \* the transport's request semaphore is held
    in_flight,    \* the contexts that have a field-bus exchange in progress
    \* the request handler (rest_server.c)
    hpc,          \* position of the handler
    req,          \* the request being handled: route, content_len, body
    cur_len,      \* int cur_len
    root,         \* cJSON *root: "NULL" or "obj"
    funcId,       \* int funcId
    hvalue,       \* int value
    hcid,         \* the cid given to read_mb / set_mb
    herr,         \* the outcome of read_mb / set_mb
    resp,         \* the reply sent and the handler's return value
    live_roots,   \* cJSON records allocated and not deleted
    nreq,         \* requests received
    hops,         \* field-bus exchanges issued for the current request
    deref_null,   \* the current request dereferenced a NULL cJSON item
    last_set      \* the last successful Set: cid, function code and value

vars == << table, pc, retry, cid, err, value, alarm_state, pd, storage, tail,
           dev_test, session_open, reported, sweeps, visited, fails, bus_ops,
           alarm_sets, first_viol, alarm_sweep, last_read, echo_writes,
           sweep_writes, test_read, destroys, resolved, dev_regs, bus_taken,
           in_flight, hpc, req, cur_len, root, funcId, hvalue, hcid, herr,
           resp, live_roots, nreq, hops, deref_null, last_set >>

\* the variables only the request handler changes
HVars == << hpc, req, cur_len, root, funcId, hvalue, hcid, herr, resp,
            live_roots, nreq, hops, deref_null, last_set >>
\* the variables only the polling worker changes
WVars == << pc, retry, cid, err, value, alarm_state, pd, tail, dev_test,
            session_open, reported, sweeps, visited, fails, bus_ops,
            alarm_sets, first_viol, alarm_sweep, last_read, echo_writes,
            sweep_writes, test_read, destroys, resolved >>

None == [kind |-> "none"]

\* ------------------------------------------------------- pure operators
RECURSIVE BitAnd(_, _)
\* C's bitwise & on non-negative integers
BitAnd(a, b) ==
    IF a = 0 \/ b = 0 THEN 0
    ELSE (IF a % 2 = 1 /\ b % 2 = 1 THEN 1 ELSE 0) + 2 * BitAnd(a \div 2, b \div 2)

\* *(uint16_t*)temp_data_ptr: the low 16 bits of the stored word
StateBits(word) == word % 65536

\* the offset used without the test for the sentinel 0
master_get_param_data_unchecked(d) ==
    IF d.mb_param_type \in Kinds
    THEN << d.mb_param_type, d.param_offset - 1 >>
    ELSE NULL_PTR

\* master_get_param_data: the field of the block of the descriptor's kind
\* at param_offset - 1; NULL for the sentinel offset 0 or an unknown kind
master_get_param_data(d) ==
    IF d.param_offset # 0
    THEN IF d.mb_param_type \in Kinds
         THEN << d.mb_param_type, d.param_offset - 1 >>
         ELSE NULL_PTR
    ELSE NULL_PTR

\* mbc_master_get_cid_info as main.c uses it: the table registered by
\* master_init is device_parameters, so every cid below its size is found
LookupErr(c, t) == IF c < Len(t) THEN ESP_OK ELSE ESP_ERR_NOT_FOUND
LookupDesc(c, t, old) == IF c < Len(t) THEN c + 1 ELSE old

\* a transport that starts a request whoever holds the bus
BusFreeAlways(taken) == TRUE

\* the transport collaborator's internal serialisation of its callers
BusFree(taken) == ~taken

\* the retry loop without the alarm test
OuterCondIgnoreAlarm(r, alarm) == r <= MASTER_MAX_RETRY

\* line 179: retry <= MASTER_MAX_RETRY && (!alarm_state)
OuterCond(r, alarm) == r <= MASTER_MAX_RETRY /\ ~alarm

\* the loop over the cids stopped by any error
InnerCondStopOnError(e, c, t) == e = ESP_OK /\ c < Len(t)

\* line 181: (err != ESP_ERR_NOT_FOUND) && cid < MASTER_MAX_CIDS
InnerCond(e, c, t) == e # ESP_ERR_NOT_FOUND /\ c < Len(t)

\* line 181: cid = 0
FirstCid == 0

\* a loop step that does not advance
NextCidStay(c) == c

\* line 181: cid++
NextCid(c) == c + 1

\* the special case keyed on another cid
IsTestRegWrongCid(d) == d.param_type = "ASCII" /\ d.cid = CID_HOLD_TEST_REG + 1

\* lines 191-192: the test array of registers
IsTestReg(d) == d.param_type = "ASCII" /\ d.cid = CID_HOLD_TEST_REG

\* the fill done whatever was read
NeedsFillAlways(word) == TRUE

\* line 203: *(uint32_t*)temp_data_ptr != 0xAAAAAAAA
NeedsFill(word) == word # SENTINEL

\* lines 234-235
IsAnalog(d) == d.mb_param_type = "HOLDING" \/ d.mb_param_type = "INPUT"

\* limits taken as exclusive at the upper end
AnalogAlarmInclusive(v, d) == v >= d.opt2 \/ v < d.opt1

\* lines 242-243: value > max || value < min
AnalogAlarm(v, d) == v > d.opt2 \/ v < d.opt1

\* all bits of the mask required
DigitalAlarmAllBits(state, d) == BitAnd(state, d.opt1) = d.opt1

\* line 256: state & param_opts.opt1
DigitalAlarm(state, d) == BitAnd(state, d.opt1) # 0

\* a report that names the cid after the descriptor's
ReportedCidNext(d) == d.cid + 1

\* lines 276-277: the cid the report names
ReportedCid(d) == d.cid

\* a release that is repeated
DestroyPcAgain(ok) == IF ok THEN "destroy" ELSE "aborted"

\* line 283: ESP_ERROR_CHECK(mbc_master_destroy()) aborts on an error
DestroyPc(ok) == IF ok THEN "done" ELSE "aborted"

\* values a successful read of a characteristic can deliver
ReadVals(d) ==
    IF IsAnalog(d)
    THEN {d.opt1 - 1, d.opt1, d.opt2, d.opt2 + 1} \cup {v \in {5} : d.opt1 <= v /\ v <= d.opt2}
    ELSE 0 .. MaxState

\* contents of the slave's test registers: first word and the bytes after it
Patterns == [w : {SENTINEL, 0}, fill : {FILL_BYTE, 0}]

\* ------------------------------------------------------------------ Init
Init ==
    /\ table \in Tables
    /\ pc = "idle"
    /\ retry = 0 /\ cid = 0 /\ err = ESP_OK /\ value = 0
    /\ alarm_state = FALSE /\ pd = NULL
    /\ storage = [l \in Locs |-> 0]
    /\ tail = 0
    /\ dev_test \in Patterns
    /\ session_open = TRUE
    /\ reported = None
    /\ sweeps = 0 /\ visited = << >> /\ fails = {} /\ bus_ops = 0
    /\ alarm_sets = 0 /\ first_viol = -1 /\ alarm_sweep = 0
    /\ last_read = None /\ echo_writes = 0 /\ sweep_writes = 0
    /\ test_read = None /\ destroys = 0
    /\ resolved = None
    /\ dev_regs = [c \in Cids |-> 0]
    /\ bus_taken = FALSE /\ in_flight = {}
    /\ hpc = "idle" /\ req = None /\ cur_len = 0 /\ root = "NULL"
    /\ funcId = 0 /\ hvalue = 0 /\ hcid = 0 /\ herr = ESP_OK
    /\ resp = None /\ live_roots = 0 /\ nreq = 0 /\ hops = 0
    /\ deref_null = FALSE /\ last_set = None

LoopVars == << retry, cid, err, value, alarm_state, pd >>
DataVars == << storage, tail, dev_test >>
AlarmHist == << alarm_sets, first_viol, alarm_sweep >>
WriteHist == << echo_writes, sweep_writes >>

\* lines 172-179: entry of master_operation_func, locals initialised
Start ==
    /\ pc = "idle"
    /\ err' = ESP_OK /\ value' = 0 /\ alarm_state' = FALSE /\ pd' = NULL
    /\ retry' = 0
    /\ pc' = "outer"
    /\ UNCHANGED << table, cid, DataVars, session_open, reported, sweeps,
                    visited, fails, bus_ops, AlarmHist, last_read, WriteHist,
                    test_read, destroys >>
    /\ UNCHANGED resolved
    /\ UNCHANGED << dev_regs, bus_taken, in_flight, HVars >>

\* a retry loop that is entered again when its condition is false
LoopExitPcStay(alarm) == "outer"

\* lines 179 and 275: when the condition of the retry loop is false, control
\* passes to the report, whether or not the alarm is set
LoopExitPc(alarm) == "report"

\* line 179: the condition of the retry loop; line 181: cid = 0
OuterCheck ==
    /\ pc = "outer"
    /\ IF OuterCond(retry, alarm_state)
       THEN /\ cid' = FirstCid
            /\ pc' = "inner"
            /\ sweeps' = sweeps + 1
            /\ visited' = << >> /\ fails' = {}
            /\ sweep_writes' = 0 /\ test_read' = None
       ELSE /\ pc' = LoopExitPc(alarm_state)
            /\ UNCHANGED << cid, sweeps, visited, fails, sweep_writes, test_read >>
    /\ UNCHANGED << table, retry, err, value, alarm_state, pd, DataVars,
                    session_open, reported, bus_ops, AlarmHist, last_read,
                    echo_writes, destroys >>
    /\ UNCHANGED resolved
    /\ UNCHANGED << dev_regs, bus_taken, in_flight, HVars >>

\* line 181: the condition of the loop over the cids
InnerCheck ==
    /\ pc = "inner"
    /\ pc' = IF InnerCond(err, cid, table) THEN "lookup" ELSE "sweep_delay"
    /\ UNCHANGED << table, LoopVars, DataVars, session_open, reported, sweeps,
                    visited, fails, bus_ops, AlarmHist, last_read, WriteHist,
                    test_read, destroys >>
    /\ UNCHANGED resolved
    /\ UNCHANGED << dev_regs, bus_taken, in_flight, HVars >>

\* lines 186-189: mbc_master_get_cid_info, master_get_param_data, assert;
\* when the cid is skipped, line 181: cid++
Lookup ==
    /\ pc = "lookup"
    /\ err' = LookupErr(cid, table)
    /\ pd' = LookupDesc(cid, table, pd)
    /\ IF err' # ESP_ERR_NOT_FOUND /\ pd' # NULL
       THEN /\ pc' = IF master_get_param_data(table[pd']) # NULL_PTR
                     THEN "read" ELSE "aborted"
            /\ cid' = cid
            /\ resolved' = [kind |-> "resolve", d |-> table[pd'],
                            ptr |-> master_get_param_data(table[pd'])]
       ELSE /\ pc' = "inner"
            /\ cid' = NextCid(cid)
            /\ UNCHANGED resolved
    /\ UNCHANGED << table, retry, value, alarm_state, DataVars, session_open,
                    reported, sweeps, visited, fails, bus_ops, AlarmHist,
                    last_read, WriteHist, test_read, destroys >>
    /\ UNCHANGED << dev_regs, bus_taken, in_flight, HVars >>

\* The transport serialises its callers: a request is started only when no
\* other request holds the bus.
BeginExchange ==
    /\ pc \in {"read", "write"}
    /\ "poll" \notin in_flight
    /\ BusFree(bus_taken)
    /\ bus_taken' = TRUE
    /\ in_flight' = in_flight \cup {"poll"}
    /\ UNCHANGED << table, storage, dev_regs, WVars, HVars >>

\* lines 194-205 and 222-228: the read of the test array; a successful read
\* copies the slave's registers to the instance, and an instance that does
\* not start with 0xAAAAAAAA is filled (memset, then the first word)
ReadTestReg(d, loc) ==
    \E e \in ErrCodes :
        /\ err' = e
        /\ IF e = ESP_OK
           THEN IF NeedsFill(dev_test.w)
                THEN /\ storage' = [storage EXCEPT ![loc] = SENTINEL]
                     /\ tail' = FILL_BYTE
                     /\ pc' = "write"
                ELSE /\ storage' = [storage EXCEPT ![loc] = dev_test.w]
                     /\ tail' = dev_test.fill
                     /\ pc' = "poll_delay"
           ELSE /\ pc' = "poll_delay"
                /\ UNCHANGED << storage, tail >>
        /\ test_read' = [kind |-> "read", ok |-> (e = ESP_OK), w |-> dev_test.w]
        /\ last_read' = [kind |-> "read", cid |-> cid, ok |-> (e = ESP_OK),
                         v |-> dev_test.w]
        /\ fails' = IF e = ESP_FAIL THEN fails \cup {cid} ELSE fails
        /\ UNCHANGED << value, alarm_state, AlarmHist, dev_regs >>

\* a store of the local `value` whatever the read returned
StoredValueAlways(e, old, v) == v

\* lines 232-233: *(float*)temp_data_ptr = value only under err == ESP_OK
StoredValue(e, old, v) == IF e = ESP_OK THEN v ELSE old

\* lines 230-267: the read of any other characteristic, the store of the
\* value and the alarm check; an alarm leaves the loop over the cids (break)
ReadParam(d, loc) ==
    \E e \in ErrCodes, v \in ReadVals(d) :
        /\ err' = e
        /\ storage' = [storage EXCEPT ![loc] = StoredValue(e, storage[loc], v)]
        /\ IF e = ESP_OK
           THEN /\ value' = v
                /\ dev_regs' = [dev_regs EXCEPT ![cid] = v]
                /\ alarm_state' = IF IsAnalog(d)
                                  THEN AnalogAlarm(v, d)
                                  ELSE DigitalAlarm(StateBits(storage'[loc]), d)
           ELSE UNCHANGED << value, alarm_state, dev_regs >>
        /\ pc' = IF alarm_state' THEN "sweep_delay" ELSE "poll_delay"
        /\ alarm_sets' = IF alarm_state' THEN alarm_sets + 1 ELSE alarm_sets
        /\ first_viol' = IF alarm_state' /\ first_viol = -1 THEN cid ELSE first_viol
        /\ alarm_sweep' = IF alarm_state' THEN sweeps ELSE alarm_sweep
        /\ last_read' = [kind |-> "read", cid |-> cid, ok |-> (e = ESP_OK),
                         v |-> IF e = ESP_OK THEN v ELSE 0]
        /\ fails' = IF e = ESP_FAIL THEN fails \cup {cid} ELSE fails
        /\ UNCHANGED << tail, test_read >>

\* lines 190-268: one mbc_master_get_parameter exchange and what follows it
Read ==
    /\ pc = "read"
    /\ "poll" \in in_flight
    /\ LET d == table[pd]
           loc == master_get_param_data(d)
       IN  IF IsTestReg(d) THEN ReadTestReg(d, loc) ELSE ReadParam(d, loc)
    /\ visited' = Append(visited, cid)
    /\ bus_ops' = bus_ops + 1
    /\ UNCHANGED << table, retry, cid, pd, dev_test, session_open, reported,
                    sweeps, WriteHist, destroys >>
    /\ UNCHANGED resolved
    /\ bus_taken' = FALSE /\ in_flight' = in_flight \ {"poll"}
    /\ UNCHANGED HVars

\* lines 206-220: mbc_master_set_parameter of the filled test array; a write
\* that fails may or may not have reached the slave
Write ==
    /\ pc = "write"
    /\ "poll" \in in_flight
    /\ LET filled == [w |-> storage[master_get_param_data(table[pd])], fill |-> tail]
       IN  \E e \in ErrCodes :
             /\ err' = e
             /\ dev_test' \in (IF e = ESP_OK THEN {filled} ELSE {filled, dev_test})
             /\ fails' = IF e = ESP_FAIL THEN fails \cup {cid} ELSE fails
    /\ echo_writes' = echo_writes + 1
    /\ sweep_writes' = sweep_writes + 1
    /\ bus_ops' = bus_ops + 1
    /\ pc' = "poll_delay"
    /\ UNCHANGED << table, retry, cid, value, alarm_state, pd, storage, tail,
                    session_open, reported, sweeps, visited, AlarmHist,
                    last_read, test_read, destroys >>
    /\ UNCHANGED resolved
    /\ bus_taken' = FALSE /\ in_flight' = in_flight \ {"poll"}
    /\ UNCHANGED << HVars, dev_regs >>

\* line 269: vTaskDelay(POLL_TIMEOUT_TICS); line 181: cid++
PollDelay ==
    /\ pc = "poll_delay"
    /\ cid' = NextCid(cid)
    /\ pc' = "inner"
    /\ UNCHANGED << table, retry, err, value, alarm_state, pd, DataVars,
                    session_open, reported, sweeps, visited, fails, bus_ops,
                    AlarmHist, last_read, WriteHist, test_read, destroys >>
    /\ UNCHANGED resolved
    /\ UNCHANGED << dev_regs, bus_taken, in_flight, HVars >>

\* line 272: vTaskDelay(UPDATE_CIDS_TIMEOUT_TICS); line 179: retry++
SweepDelay ==
    /\ pc = "sweep_delay"
    /\ retry' = retry + 1
    /\ pc' = "outer"
    /\ UNCHANGED << table, cid, err, value, alarm_state, pd, DataVars,
                    session_open, reported, sweeps, visited, fails, bus_ops,
                    AlarmHist, last_read, WriteHist, test_read, destroys >>
    /\ UNCHANGED resolved
    /\ UNCHANGED << dev_regs, bus_taken, in_flight, HVars >>

\* lines 275-282: the report of the outcome; param_descriptor->cid of a
\* NULL descriptor is a fault
Report ==
    /\ pc = "report"
    /\ IF alarm_state
       THEN IF pd # NULL
            THEN /\ reported' = [kind |-> "alarm", cid |-> ReportedCid(table[pd])]
                 /\ pc' = "destroy"
            ELSE /\ pc' = "aborted"
                 /\ UNCHANGED reported
       ELSE /\ reported' = [kind |-> "no_alarm", cid |-> MASTER_MAX_RETRY]
            /\ pc' = "destroy"
    /\ UNCHANGED << table, LoopVars, DataVars, session_open, sweeps, visited,
                    fails, bus_ops, AlarmHist, last_read, WriteHist, test_read,
                    destroys >>
    /\ UNCHANGED resolved
    /\ UNCHANGED << dev_regs, bus_taken, in_flight, HVars >>

\* line 283: ESP_ERROR_CHECK(mbc_master_destroy())
Destroy ==
    /\ pc = "destroy"
    /\ \E ok \in BOOLEAN :
         /\ pc' = DestroyPc(ok)
         /\ session_open' = IF ok THEN FALSE ELSE session_open
         /\ destroys' = IF ok THEN destroys + 1 ELSE destroys
    /\ UNCHANGED << table, LoopVars, DataVars, reported, sweeps, visited,
                    fails, bus_ops, AlarmHist, last_read, WriteHist, test_read >>
    /\ UNCHANGED resolved
    /\ UNCHANGED << dev_regs, bus_taken, in_flight, HVars >>

Next ==
    \/ Start
    \/ OuterCheck
    \/ InnerCheck
    \/ Lookup
    \/ BeginExchange
    \/ Read
    \/ Write
    \/ PollDelay
    \/ SweepDelay
    \/ Report
    \/ Destroy

Spec == Init /\ [][Next]_vars

\* the worker task is scheduled again and again, and every field-bus
\* exchange and every vTaskDelay it calls returns
SpecLive == Init /\ [][Next]_vars /\ WF_vars(Next)

TypeOK ==
    /\ pc \in {"idle", "outer", "inner", "lookup", "read", "write",
               "poll_delay", "sweep_delay", "report", "destroy", "done", "aborted"}
    /\ retry \in 0 .. MASTER_MAX_RETRY + 1
    /\ cid \in 0 .. Len(table)
    /\ err \in ErrCodes
    /\ pd \in 0 .. Len(table)
    /\ alarm_state \in BOOLEAN

\* ------------------------------------------- request handlers (rest_server.c)
\* total_len >= SCRATCH_BUFSIZE admitted up to the buffer size itself
TooLongAbove(len) == len > SCRATCH_BUFSIZE

\* lines 68 and 121: total_len >= SCRATCH_BUFSIZE
TooLong(len) == len >= SCRATCH_BUFSIZE

\* an unknown function code served as a holding read
GetCidDefault(f) ==
    CASE f = 3 -> 0 [] f = 4 -> 1 [] f = 1 -> 2 [] OTHER -> 0

\* lines 142-157: the cid get_mb_handler gives to read_mb; -1: rejected
GetCid(f) ==
    CASE f = 3 -> 0 [] f = 4 -> 1 [] f = 1 -> 2 [] OTHER -> -1

\* lines 89-104: the cid set_mb_handler gives to set_mb; -1: rejected
SetCid(f) ==
    CASE f = 16 -> 3 [] f = 15 -> 4 [] f = 10 -> 3 [] OTHER -> -1

MapCid(route, f) == IF route = "get" THEN GetCid(f) ELSE SetCid(f)

\* the fields a handler reads from the parsed record (lines 84-87, 137-139)
Required(route) ==
    IF route = "set" THEN {"slaveId", "registerId", "funcId", "value"}
    ELSE {"slaveId", "registerId", "funcId"}

FuncIds == {1, 3, 4, 5, 10, 15, 16, 99}
SetVals == {5, 7}
Fields == {"slaveId", "registerId", "funcId", "value"}

\* request bodies: unparseable text, or an object with some of the fields
Bodies ==
    [json : {"malformed"}, fields : {{}}, funcId : {0}, value : {0}]
    \cup [json : {"object"}, fields : {Fields} \cup {Fields \ {f} : f \in Fields},
          funcId : FuncIds, value : SetVals]

\* the body before it is received
NoBody == [json |-> "none", fields |-> {}, funcId |-> 0, value |-> 0]

Lens == {BodyLen, SCRATCH_BUFSIZE - 1, SCRATCH_BUFSIZE, SCRATCH_BUFSIZE + 1}

\* what httpd_req_recv can deliver of the remaining bytes: all or a half
Chunks(remaining) == {remaining} \cup {n \in {remaining \div 2} : n > 0}

\* lines 64-72 / 117-125: a request arrives; an oversized one is refused
HStartWith(lens) ==
    /\ hpc = "idle"
    /\ nreq < MaxRequests
    /\ \E r \in {"get", "set"}, l \in lens :
         /\ req' = [kind |-> "req", route |-> r, len |-> l, body |-> NoBody]
         /\ IF TooLong(l)
            THEN /\ resp' = [kind |-> "resp", status |-> "500",
                             msg |-> "content too long", ret |-> "ESP_FAIL", value |-> 0]
                 /\ hpc' = "returned"
            ELSE /\ resp' = None
                 /\ hpc' = IF l > 0 THEN "recv" ELSE "parse"
    /\ nreq' = nreq + 1
    /\ cur_len' = 0 /\ root' = "NULL" /\ funcId' = 0 /\ hvalue' = 0
    /\ hcid' = -1 /\ herr' = ESP_OK /\ hops' = 0 /\ deref_null' = FALSE
    /\ UNCHANGED << table, storage, dev_regs, bus_taken, in_flight, WVars,
                    live_roots, last_set >>

HStart == HStartWith(Lens)

\* lines 73-81 / 126-134: one httpd_req_recv of the receive loop
HRecv ==
    /\ hpc = "recv"
    /\ \/ /\ resp' = [kind |-> "resp", status |-> "500",
                      msg |-> "Failed to post control value", ret |-> "ESP_FAIL",
                      value |-> 0]
          /\ hpc' = "returned"
          /\ UNCHANGED cur_len
       \/ \E received \in Chunks(req.len - cur_len) :
            /\ cur_len' = cur_len + received
            /\ hpc' = IF cur_len' < req.len THEN "recv" ELSE "parse"
            /\ UNCHANGED resp
    /\ UNCHANGED << table, storage, dev_regs, bus_taken, in_flight, WVars,
                    req, root, funcId, hvalue, hcid, herr, live_roots, nreq,
                    hops, deref_null, last_set >>

\* lines 82-87 / 135-141: cJSON_Parse and the reads of ->valueint.  The text
\* that does not parse gives root = NULL, cJSON_GetObjectItem of NULL or of
\* an absent field gives NULL, and ->valueint of NULL is an invalid access:
\* the handler faults, or goes on with whatever was loaded.
HParseOf(bodies) ==
    /\ hpc = "parse"
    /\ \E b \in bodies : req' = [req EXCEPT !.body = b]
    /\ root' = IF req'.body.json = "object" THEN "obj" ELSE "NULL"
    /\ live_roots' = IF req'.body.json = "object" THEN live_roots + 1 ELSE live_roots
    /\ IF req'.body.json = "object" /\ Required(req.route) \subseteq req'.body.fields
       THEN /\ funcId' = req'.body.funcId
            /\ hvalue' = IF req.route = "set" THEN req'.body.value ELSE 0
            /\ hpc' = "map"
            /\ UNCHANGED deref_null
       ELSE /\ deref_null' = TRUE
            /\ \/ /\ hpc' = "crashed"
                  /\ UNCHANGED << funcId, hvalue >>
               \/ /\ hpc' = "map"
                  /\ funcId' \in FuncIds
                  /\ hvalue' \in (IF req.route = "set" THEN SetVals ELSE {0})
    /\ UNCHANGED << table, storage, dev_regs, bus_taken, in_flight, WVars,
                    cur_len, hcid, herr, resp, nreq, hops, last_set >>

HParse == HParseOf(Bodies)

\* lines 89-104 / 142-157: the switch on funcId; an unknown code makes the
\* handler return ESP_ERR_INVALID_ARG at once
HMap ==
    /\ hpc = "map"
    /\ hcid' = MapCid(req.route, funcId)
    /\ IF hcid' # -1
       THEN /\ hpc' = "exchange"
            /\ UNCHANGED resp
       ELSE /\ hpc' = "returned"
            /\ resp' = [kind |-> "resp", status |-> "none", msg |-> "",
                        ret |-> "ESP_ERR_INVALID_ARG", value |-> 0]
    /\ UNCHANGED << table, storage, dev_regs, bus_taken, in_flight, WVars,
                    req, cur_len, root, funcId, hvalue, herr, live_roots,
                    nreq, hops, deref_null, last_set >>

\* what read_mb hands back when the access failed
FailReturns == {-1, 0}

\* read_mb / set_mb up to the field-bus exchange: the descriptor of the cid
\* is looked up and resolved; a cid that is not in the table or a controller
\* that was destroyed fails without an exchange, an unresolvable descriptor
\* aborts, and otherwise the exchange starts once the transport is free
HBegin ==
    /\ hpc = "exchange"
    /\ IF LookupErr(hcid, table) # ESP_OK \/ ~session_open
       THEN /\ herr' = IF LookupErr(hcid, table) # ESP_OK
                       THEN ESP_ERR_NOT_FOUND ELSE ESP_FAIL
            /\ hvalue' \in (IF req.route = "get" THEN FailReturns ELSE {hvalue})
            /\ hpc' = "reply"
            /\ UNCHANGED << bus_taken, in_flight >>
       ELSE IF master_get_param_data(table[hcid + 1]) = NULL_PTR
            THEN /\ hpc' = "crashed"
                 /\ UNCHANGED << herr, hvalue, bus_taken, in_flight >>
            ELSE /\ BusFree(bus_taken)
                 /\ bus_taken' = TRUE
                 /\ in_flight' = in_flight \cup {"http"}
                 /\ hpc' = "exchanging"
                 /\ UNCHANGED << herr, hvalue >>
    /\ UNCHANGED << table, storage, dev_regs, WVars, req, cur_len, root,
                    funcId, hcid, resp, live_roots, nreq, hops, deref_null,
                    last_set >>

\* read_mb: the field-bus read of the characteristic; the value read is
\* stored in the characteristic's field and handed back
HRead(loc) ==
    \E e \in ErrCodes :
        /\ herr' = e
        /\ IF e = ESP_OK
           THEN /\ hvalue' = dev_regs[hcid]
                /\ storage' = [storage EXCEPT ![loc] = dev_regs[hcid]]
           ELSE /\ hvalue' \in FailReturns
                /\ UNCHANGED storage
        /\ UNCHANGED << dev_regs, last_set >>

\* set_mb: the value is stored in the characteristic's field and written to
\* the slave; a write that fails may or may not have reached the slave
HWrite(loc) ==
    \E e \in ErrCodes :
        /\ herr' = e
        /\ IF e = ESP_OK
           THEN /\ storage' = [storage EXCEPT ![loc] = hvalue]
                /\ dev_regs' = [dev_regs EXCEPT ![hcid] = hvalue]
                /\ last_set' = [kind |-> "set", cid |-> hcid, funcId |-> funcId,
                                value |-> hvalue]
           ELSE /\ dev_regs' \in {dev_regs, [dev_regs EXCEPT ![hcid] = hvalue]}
                /\ UNCHANGED << storage, last_set >>
        /\ UNCHANGED hvalue

\* lines 144-152 / 91-99: the exchange of read_mb or set_mb completes
HExchange ==
    /\ hpc = "exchanging"
    /\ "http" \in in_flight
    /\ LET loc == master_get_param_data(table[hcid + 1])
       IN  IF req.route = "get" THEN HRead(loc) ELSE HWrite(loc)
    /\ hops' = hops + 1
    /\ bus_taken' = FALSE
    /\ in_flight' = in_flight \ {"http"}
    /\ hpc' = "reply"
    /\ UNCHANGED << table, WVars, req, cur_len, root, funcId, hcid, resp,
                    live_roots, nreq, deref_null >>

\* lines 106-112 / 159-166: the log line, the reply with the printed record
\* (with the value for a Get), cJSON_Delete(root), return ESP_OK
HReply ==
    /\ hpc = "reply"
    /\ resp' = [kind |-> "resp", status |-> "200", msg |-> "json",
                ret |-> "ESP_OK", value |-> hvalue]
    /\ live_roots' = IF root = "obj" THEN live_roots - 1 ELSE live_roots
    /\ root' = "NULL"
    /\ hpc' = "returned"
    /\ UNCHANGED << table, storage, dev_regs, bus_taken, in_flight, WVars,
                    req, cur_len, funcId, hvalue, hcid, herr, nreq, hops,
                    deref_null, last_set >>

\* the handler has returned: its frame and the request are gone
HFinish ==
    /\ hpc = "returned"
    /\ hpc' = "idle"
    /\ req' = None /\ resp' = None
    /\ cur_len' = 0 /\ root' = "NULL" /\ funcId' = 0 /\ hvalue' = 0
    /\ hcid' = 0 /\ herr' = ESP_OK /\ hops' = 0 /\ deref_null' = FALSE
    /\ UNCHANGED << table, storage, dev_regs, bus_taken, in_flight, WVars,
                    live_roots, nreq, last_set >>

NextBridge ==
    \/ HStart
    \/ HRecv
    \/ HParse
    \/ HMap
    \/ HBegin
    \/ HExchange
    \/ HReply
    \/ HFinish

\* the request handlers alone, the polling worker not started; the handlers
\* never address the test array of the device
InitBridge == Init /\ dev_test = [w |-> SENTINEL, fill |-> FILL_BYTE]

SpecBridge == InitBridge /\ [][NextBridge]_vars

\* ---- polling worker and request handlers on the one master session ----

\* well-formed bodies of one read, one write and one unknown function code
ConcBodies ==
    {b \in Bodies : b.json = "object" /\ b.fields = Fields
                       /\ b.funcId \in {3, 16, 99} /\ b.value = 5}

HStartConc == HStartWith({BodyLen})

HParseConc == HParseOf(ConcBodies)

\* the table of main.c: it has no CID_HOLD_TEST_REG entry, so the worker
\* never reaches the write-back of the test branch
InitConc == Init /\ table = TableMain /\ dev_test = [w |-> SENTINEL, fill |-> FILL_BYTE]

NextConc ==
    \/ Start
    \/ OuterCheck
    \/ InnerCheck
    \/ Lookup
    \/ BeginExchange
    \/ Read
    \/ PollDelay
    \/ SweepDelay
    \/ Report
    \/ Destroy
    \/ HStartConc
    \/ HRecv
    \/ HParseConc
    \/ HMap
    \/ HBegin
    \/ HExchange
    \/ HReply
    \/ HFinish

SpecConc == InitConc /\ [][NextConc]_vars

\* ---------------------------------------------------------------- claims
AfterLoop == pc \in {"report", "destroy", "done"}
LastDesc == table[last_read.cid + 1]
LastOk == last_read.kind = "read" /\ last_read.ok
LastIsTestReg == LastDesc.param_type = "ASCII" /\ LastDesc.cid = 6

\* C1: one run performs at most R = MASTER_MAX_RETRY = 3 sweeps over the
\* characteristic table.
C1_AtMostRSweeps == sweeps <= MASTER_MAX_RETRY

\* C2: a run that ends without an alarm has performed exactly R sweeps, and
\* no sweep is started after the sweep in which the alarm was set.
C2_RSweepsIffNoAlarm ==
    /\ (AfterLoop /\ ~alarm_state) => sweeps = MASTER_MAX_RETRY
    /\ alarm_state => sweeps = alarm_sweep

\* C3: within one sweep the cids read are strictly ascending, start at 0,
\* none is read twice, and at most N = table size reads are made.
C3_AscendingFromZero ==
    /\ Len(visited) <= Len(table)
    /\ visited # << >> => visited[1] = 0
    /\ \A i, j \in 1 .. Len(visited) : i < j => visited[i] < visited[j]

C3_Witness == Len(table) >= 3 /\ Len(visited) = Len(table) /\ sweeps = 2

\* C4: after a successful read of value v of a Holding or Input
\* characteristic with limits (min, max) the alarm flag is set if and only
\* if v > max or v < min.
C4_AnalogAlarmIff ==
    (LastOk /\ LastDesc.mb_param_type \in {"HOLDING", "INPUT"} /\ ~LastIsTestReg)
        => (alarm_state <=> (last_read.v > LastDesc.opt2 \/ last_read.v < LastDesc.opt1))

C4_Witness ==
    /\ LastOk /\ LastDesc.mb_param_type = "HOLDING"
    /\ LastDesc.opt1 = -10 /\ LastDesc.opt2 = 10
    /\ last_read.v = 11 /\ alarm_state

\* C5: after a successful read of a Coil or Discrete characteristic with
\* bitmask m the alarm flag is set if and only if the stored bits AND m is
\* not zero.
C5_DigitalAlarmIff ==
    (LastOk /\ LastDesc.mb_param_type \in {"COIL", "DISCRETE"} /\ ~LastIsTestReg)
        => (alarm_state <=>
              BitAnd(storage[<< LastDesc.mb_param_type, LastDesc.param_offset - 1 >>] % 65536,
                     LastDesc.opt1) # 0)

C5_Witness ==
    /\ LastOk /\ LastDesc.mb_param_type = "COIL" /\ LastDesc.opt1 = 1
    /\ storage[<< "COIL", LastDesc.param_offset - 1 >>] = 1
    /\ alarm_state

\* C6: once the alarm is set, the run issues no further field-bus read or
\* write and starts no further sweep.
C6_NoExchangeAfterAlarm ==
    [][alarm_state => (bus_ops' = bus_ops /\ sweeps' = sweeps)]_vars

C6_Witness ==
    /\ pc = "done" /\ alarm_state
    /\ Len(visited) < Len(table) /\ sweeps < MASTER_MAX_RETRY

\* C7: a transport failure of a read or write does not set the alarm and
\* does not end the sweep or the run: the loop goes on with the next cid,
\* and a sweep ends early only on an alarm or a NotFound result.
C7_FailureDoesNotEndSweep ==
    /\ [](pc = "sweep_delay" /\ cid < Len(table)
            => alarm_state \/ err = ESP_ERR_NOT_FOUND)
    /\ []((last_read.kind = "read" /\ ~last_read.ok) => ~alarm_state)
    /\ [](AfterLoop => alarm_state \/ retry > MASTER_MAX_RETRY)
    /\ [][(pc = "inner" /\ err = ESP_FAIL /\ cid < Len(table)) => pc' = "lookup"]_vars
    /\ [][(pc = "poll_delay" /\ err = ESP_FAIL) => (pc' = "inner" /\ cid' = cid + 1)]_vars

C7_Witness ==
    \E c \in fails : Len(visited) >= c + 2 /\ visited[c + 2] = c + 1

\* C8: a run that completes has reported its outcome and then released the
\* transport session exactly once, and no field-bus read or write follows
\* the release.
C8_ReportThenReleaseOnce ==
    /\ [](pc = "done" => (reported # None /\ destroys = 1 /\ ~session_open))
    /\ [](destroys <= 1)
    /\ [](destroys > 0 => reported # None)
    /\ [][~session_open => bus_ops' = bus_ops]_vars

C8_Witness == pc = "done" /\ destroys = 1 /\ bus_ops > 0 /\ reported.kind = "no_alarm"

\* C9: the alarm flag is clear when a run starts, is set at most once in a
\* run, by the first violating read, and the cid reported at the end of the
\* run is the cid of that read.
C9_FirstViolationReported ==
    /\ (pc = "outer" /\ sweeps = 0) => ~alarm_state
    /\ alarm_sets <= 1
    /\ alarm_state <=> first_viol # -1
    /\ reported.kind = "no_alarm" => ~alarm_state
    /\ reported.kind = "alarm" =>
          /\ reported.cid = first_viol
          /\ LastOk /\ last_read.cid = reported.cid

C9_Witness ==
    /\ reported.kind = "alarm" /\ reported.cid = first_viol
    /\ first_viol >= 1 /\ sweeps >= 2

\* C10 (as stated): in a run the test array is written back exactly once;
\* after the sweep that wrote it no later sweep writes it again.
C10_WrittenExactlyOnce ==
    /\ echo_writes <= 1
    /\ (test_read.kind = "read" /\ test_read.ok /\ test_read.w # SENTINEL /\ pc # "write")
          => echo_writes = 1

\* C10 (amended): in each sweep the test array is written at most once, and
\* it is written exactly in the sweeps whose read succeeded and returned an
\* array that does not start with the sentinel word; a sweep that reads the
\* sentinel word performs no write.
C10_WrittenIffNonSentinelRead ==
    /\ sweep_writes <= 1
    /\ pc # "write" =>
         (sweep_writes = 1 <=>
            (test_read.kind = "read" /\ test_read.ok /\ test_read.w # SENTINEL))
    /\ pc = "write" => (sweep_writes = 0 /\ test_read.kind = "read" /\ test_read.ok)

C10_Witness ==
    /\ echo_writes = 1 /\ sweep_writes = 0 /\ sweeps >= 2
    /\ test_read.kind = "read" /\ test_read.ok /\ test_read.w = SENTINEL
    /\ pc = "poll_delay"

\* C11: a read of the test array (cid CID_HOLD_TEST_REG, type ASCII) never
\* changes the alarm flag, whatever was read and whatever its limits are.
C11_TestRegNeverAlarms ==
    [][(pc = "read" /\ pd # NULL /\ table[pd].param_type = "ASCII" /\ table[pd].cid = 6)
          => alarm_state' = alarm_state]_vars

C11_Witness ==
    /\ LastOk /\ LastIsTestReg /\ ~alarm_state
    /\ last_read.v = SENTINEL
    /\ (last_read.v > LastDesc.opt2 \/ last_read.v < LastDesc.opt1)

\* C18: master_get_param_data of a descriptor with the sentinel offset 0
\* yields no storage address and the caller fails (assert); with a non-zero
\* offset and a valid kind it yields the field at offset - 1 of the block of
\* the descriptor's kind.
C18_ResolveSentinelFails ==
    /\ resolved.kind = "resolve" =>
         /\ resolved.d.param_offset = 0 =>
               (resolved.ptr = << >> /\ pc = "aborted")
         /\ (resolved.d.param_offset # 0
               /\ resolved.d.mb_param_type \in {"HOLDING", "INPUT", "COIL", "DISCRETE"}) =>
               /\ resolved.ptr = << resolved.d.mb_param_type, resolved.d.param_offset - 1 >>
               /\ resolved.ptr \in Locs
    /\ pc \in {"read", "write", "poll_delay"} => table[pd].param_offset # 0

C18_Witness ==
    /\ pc = "aborted" /\ resolved.kind = "resolve"
    /\ resolved.d.param_offset = 0 /\ resolved.d.cid = 1 /\ bus_ops = 1

\* the register kind a function code names (spec 4.3)
NamedKind(route, f) ==
    IF route = "get"
    THEN CASE f = 3 -> "HOLDING" [] f = 4 -> "INPUT" [] f = 1 -> "COIL" [] OTHER -> "none"
    ELSE CASE f = 16 -> "HOLDING" [] f = 10 -> "HOLDING" [] f = 15 -> "COIL" [] OTHER -> "none"

Returned == hpc = "returned" /\ req.kind = "req" /\ resp.kind = "resp"
WellFormed == req.body.json = "object" /\ Required(req.route) \subseteq req.body.fields

\* C12: a Get with funcId 3 returns the value that the last successful Set
\* with funcId 16 wrote, through the same characteristic.
C12_SetThenGetRoundTrip ==
    (Returned /\ WellFormed /\ req.route = "get" /\ funcId = 3 /\ herr = ESP_OK /\ hops = 1
       /\ resp.status = "200" /\ last_set.kind = "set" /\ last_set.funcId = 16)
        => (hcid = last_set.cid /\ resp.value = last_set.value)

\* C13: the characteristic accessed for an accepted function code has the
\* register kind that the code names, as the table declares it.
C13_AccessedKindIsNamedKind ==
    (hpc = "exchange" /\ WellFormed /\ LookupErr(hcid, table) = ESP_OK)
        => table[hcid + 1].mb_param_type = NamedKind(req.route, funcId)

\* C14: a function code outside {1,3,4,5,10,15,16} is rejected with
\* ESP_ERR_INVALID_ARG by both handlers, without a transport access and
\* without a change of a storage block.
C14_UnknownCodeRejected ==
    /\ [][(hpc = "map" /\ funcId \notin {1, 3, 4, 5, 10, 15, 16} /\ hpc' # hpc)
            => /\ hpc' = "returned" /\ resp'.ret = "ESP_ERR_INVALID_ARG"
               /\ storage' = storage /\ dev_regs' = dev_regs
               /\ hops' = 0 /\ in_flight' = in_flight]_vars
    /\ []((hpc \in {"exchange", "exchanging", "reply"} \/ (Returned /\ resp.status = "200"))
            => funcId \in {1, 3, 4, 5, 10, 15, 16})
    /\ []((Returned /\ resp.ret = "ESP_ERR_INVALID_ARG") => hops = 0)

C14_Witness ==
    /\ Returned /\ req.route = "get" /\ WellFormed /\ funcId = 99
    /\ resp.ret = "ESP_ERR_INVALID_ARG" /\ hops = 0

\* C15: when the access to the characteristic failed with a transport
\* error, the handler does not send the success reply.
C15_FailureNotReportedAsSuccess ==
    (Returned /\ WellFormed /\ herr = ESP_FAIL /\ hops = 1) => resp.status # "200"

\* C16 (as stated): a body is refused for its size exactly when its length
\* exceeds the capacity of the scratch buffer.
C16_RefusedIffExceedsCapacity ==
    Returned => ((resp.status = "500" /\ resp.msg = "content too long")
                    <=> req.len > SCRATCH_BUFSIZE)

\* C16 (amended): a body whose length is at least the capacity of the
\* scratch buffer is refused with 500 before anything is received, parsed,
\* mapped or exchanged, by both handlers; a shorter body is not refused for
\* its size.
C16_RefusedIffAtLeastCapacity ==
    /\ (req.kind = "req" /\ req.len >= SCRATCH_BUFSIZE) =>
          /\ Returned /\ resp.status = "500" /\ resp.msg = "content too long"
          /\ cur_len = 0 /\ root = "NULL" /\ req.body = NoBody
          /\ hcid = -1 /\ hops = 0
    /\ (Returned /\ resp.msg = "content too long") => req.len >= SCRATCH_BUFSIZE

C16_Witness ==
    /\ Returned /\ req.len = SCRATCH_BUFSIZE /\ req.route = "get"
    /\ resp.status = "500" /\ hops = 0

\* C17: a body that does not parse, or lacks a required field, is rejected
\* with an error before the switch on funcId: no absent field is
\* dereferenced and read_mb / set_mb is not called.
C17_MalformedRejectedBeforeMapping ==
    (req.kind = "req" /\ req.body.json # "none" /\ ~WellFormed)
        => /\ ~deref_null
           /\ hpc = "returned" /\ resp.kind = "resp" /\ resp.status # "200"
           /\ hops = 0

\* C19: at most one exchange with the device is in flight at any moment,
\* whether the polling worker or a request handler started it.
C19_OneExchangeInFlight ==
    /\ Cardinality(in_flight) <= 1
    /\ in_flight # {} => bus_taken

\* a request handler holds the transport while the worker is about to start
\* its own exchange
C19_Witness ==
    /\ in_flight = {"http"} /\ hpc = "exchanging" /\ pc = "read"
    /\ sweeps >= 1 /\ bus_ops >= 1

\* the run printed its outcome (lines 275-281) and called mbc_master_destroy
Completed == reported # None /\ pc \in {"done", "aborted"}

\* the run stopped at a failed assertion on the resolved pointer (lines 164, 189)
AssertFailed == pc = "aborted" /\ reported = None /\ resolved.kind = "resolve"
                    /\ resolved.ptr = NULL_PTR

Resolvable(t) == \A i \in 1 .. Len(t) : master_get_param_data(t[i]) # NULL_PTR

\* C21 (as stated): a run that was started always eventually reaches the
\* report of its outcome and the release of the transport, whatever the
\* lookups, reads and writes deliver.
C21_AlwaysCompletes == (pc = "outer") ~> Completed

\* C21 (amended): a run that was started always eventually reaches the
\* report and the release when every descriptor of the table resolves to a
\* storage location; otherwise it ends at the failed assertion on the first
\* descriptor that does not resolve, before any report.
C21_CompletesOrAsserts ==
    /\ (pc = "outer" /\ Resolvable(table)) ~> Completed
    /\ (pc = "outer") ~> (Completed \/ AssertFailed)
    /\ [](AssertFailed => ~Resolvable(table))

\* retry exhaustion after sweeps with failed reads
C21_Witness ==
    /\ Completed /\ pc = "done" /\ reported.kind = "no_alarm"
    /\ sweeps = MASTER_MAX_RETRY + 1 /\ fails # {} /\ Len(table) > 1

\* C22: every sweep that begins with the alarm clear starts at cid 0 and
\* reads the cids in order up to the end of the table or up to the cid whose
\* access returned ESP_ERR_NOT_FOUND in this sweep; what an earlier sweep
\* returned does not shorten it.
C22_EverySweepReadsFromZero ==
    (pc = "sweep_delay" /\ ~alarm_state)
        => /\ visited # << >>
           /\ \A i \in 1 .. Len(visited) : visited[i] = i - 1
           /\ (Len(visited) = Len(table) \/ err = ESP_ERR_NOT_FOUND)

\* C24: the read of a characteristic other than the test register changes
\* the storage only when it succeeded, and then only the field of that
\* characteristic, which becomes the value read; a failed read leaves every
\* field as it was.
C24_FailedReadKeepsStorage ==
    [][(pc = "read" /\ "poll" \in in_flight /\ ~IsTestReg(table[pd]))
         => IF err' = ESP_OK
            THEN storage' = [storage EXCEPT
                               ![master_get_param_data(table[pd])] = value']
            ELSE storage' = storage]_vars

\* a read failed after an earlier read had stored a value in the same field
C24_Witness ==
    /\ last_read.kind = "read" /\ ~last_read.ok /\ ~LastIsTestReg
    /\ pc = "poll_delay" /\ err = ESP_FAIL
    /\ storage[master_get_param_data(table[pd])] # 0
    /\ storage[master_get_param_data(table[pd])] = value

\* C23: a field-bus exchange of any context is in progress only while the
\* master session is open; none is issued or carried on after the polling
\* run released the session.
C23_ExchangeOnlyOnOpenSession == in_flight # {} => session_open

\* C25: every cJSON record a handler parsed is deleted before the handler
\* returns, so no record is live while no request is being handled.
C25_NoLiveRecordWhenIdle == hpc = "idle" => live_roots = 0

====
